---- MODULE Spec2Model ----
(***************************************************************************)
(* AI Krishi Mitra (src/front.js): the query pipeline (NLU, context,        *)
(* advice generation, escalation policy), the learning loop (query log,     *)
(* farmer profiles, feedback) and the analytics, as a state machine.        *)
(*                                                                         *)
(* Numbers that the code writes as fractions (0.85, 0.6, ...) are kept in   *)
(* hundredths (85, 60, ...).  A JavaScript value that may be undefined is a *)
(* record [def, val]; comparisons with an undefined value are false, as in  *)
(* JavaScript (undefined < 0.6 is false).                                   *)
(***************************************************************************)
EXTENDS Integers, Sequences, FiniteSets, TLC

(* ---------------------------------------------------------------------- *)
(* JavaScript values                                                        *)
(* ---------------------------------------------------------------------- *)
Num(n) == [def |-> TRUE, val |-> n]
Undefined == [def |-> FALSE, val |-> 0]
JsLess(a, n) == a.def /\ a.val < n

(* The empty string; null and undefined strings are falsy as well and are   *)
(* written the same way.                                                    *)
NoStr == << >>
JsString(chars) == [type |-> "string", chars |-> chars]
JsNumber(chars) == [type |-> "number", chars |-> chars]
Truthy(v) == v.type = "number" \/ v.chars # NoStr

(* Strings are sequences of characters; a non-ASCII character is written uXXXX. *)
s_banana == <<"b", "a", "n", "a", "n", "a">>
s_rice == <<"r", "i", "c", "e">>
s_tomato == <<"t", "o", "m", "a", "t", "o">>
s_spot == <<"s", "p", "o", "t">>
s_blight == <<"b", "l", "i", "g", "h", "t">>
s_disease == <<"d", "i", "s", "e", "a", "s", "e">>
s_pest == <<"p", "e", "s", "t">>
s_yellow == <<"y", "e", "l", "l", "o", "w">>
s_brown == <<"b", "r", "o", "w", "n">>
s_kerala == <<"k", "e", "r", "a", "l", "a">>
s_constructor == <<"c", "o", "n", "s", "t", "r", "u", "c", "t", "o", "r">>
ml_vazhayil_pulli == <<"u0D35", "u0D3E", "u0D34", "u0D2F", "u0D3F", "u0D32", "u0D4D", " ", "u0D2A", "u0D41", "u0D33", "u0D4D", "u0D33", "u0D3F">>
ml_rogam == <<"u0D30", "u0D4B", "u0D17", "u0D02">>

cropWords == <<
    s_banana,
    s_rice,
    s_tomato,
    <<"c", "o", "c", "o", "n", "u", "t">>,
    <<"p", "e", "p", "p", "e", "r">>,
    <<"c", "a", "r", "d", "a", "m", "o", "m">>
  >>

diseaseWords == <<
    s_spot,
    s_blight,
    <<"w", "i", "l", "t">>,
    <<"r", "o", "t">>,
    s_disease,
    <<"i", "n", "f", "e", "c", "t", "i", "o", "n">>
  >>

pestWords == <<
    <<"a", "p", "h", "i", "d">>,
    <<"b", "o", "r", "e", "r">>,
    <<"t", "h", "r", "i", "p", "s">>,
    <<"n", "e", "m", "a", "t", "o", "d", "e">>,
    s_pest,
    <<"i", "n", "s", "e", "c", "t">>
  >>

(* Object.entries(intentPatterns): the intents in declared order *)
intentPatterns == <<
    [intent |-> "disease_diagnosis",
     patterns |-> <<
       s_disease,
       <<"p", "r", "o", "b", "l", "e", "m">>,
       <<"i", "n", "f", "e", "c", "t", "e", "d">>,
       <<"s", "p", "o", "t", "s">>,
       <<"y", "e", "l", "l", "o", "w", "i", "n", "g">>
     >>],
    [intent |-> "pest_control",
     patterns |-> <<
       s_pest,
       <<"i", "n", "s", "e", "c", "t">>,
       <<"e", "a", "t", "i", "n", "g">>,
       <<"h", "o", "l", "e", "s">>,
       <<"d", "a", "m", "a", "g", "e">>
     >>],
    [intent |-> "fertilizer_advice",
     patterns |-> <<
       <<"f", "e", "r", "t", "i", "l", "i", "z", "e", "r">>,
       <<"n", "u", "t", "r", "i", "e", "n", "t">>,
       <<"g", "r", "o", "w", "t", "h">>,
       <<"y", "i", "e", "l", "d">>
     >>],
    [intent |-> "weather_query",
     patterns |-> <<
       <<"w", "e", "a", "t", "h", "e", "r">>,
       <<"r", "a", "i", "n">>,
       <<"t", "e", "m", "p", "e", "r", "a", "t", "u", "r", "e">>,
       <<"c", "l", "i", "m", "a", "t", "e">>
     >>],
    [intent |-> "scheme_info",
     patterns |-> <<
       <<"s", "c", "h", "e", "m", "e">>,
       <<"s", "u", "b", "s", "i", "d", "y">>,
       <<"l", "o", "a", "n">>,
       <<"g", "o", "v", "e", "r", "n", "m", "e", "n", "t">>,
       <<"s", "u", "p", "p", "o", "r", "t">>
     >>]
  >>

(* Object.entries(commonPhrases): the phrase table in declared order *)
commonPhrases == <<
    [malayalam |-> ml_vazhayil_pulli,
     english |-> <<"b", "a", "n", "a", "n", "a", " ", "l", "e", "a", "f", " ", "s", "p", "o", "t">>],
    [malayalam |-> ml_rogam,
     english |-> <<"d", "i", "s", "e", "a", "s", "e">>],
    [malayalam |-> <<"u0D15", "u0D40", "u0D1F", "u0D02">>,
     english |-> <<"p", "e", "s", "t">>],
    [malayalam |-> <<"u0D2E", "u0D30", "u0D41", "u0D28", "u0D4D", "u0D28", "u0D4D">>,
     english |-> <<"m", "e", "d", "i", "c", "i", "n", "e">>],
    [malayalam |-> <<"u0D0E", "u0D28", "u0D4D", "u0D24", "u0D4D", " ", "u0D1A", "u0D46", "u0D2F", "u0D4D", "u0D2F", "u0D23", "u0D02">>,
     english |-> <<"w", "h", "a", "t", " ", "t", "o", " ", "d", "o">>]
  >>

(* ---------------------------------------------------------------------- *)
(* String primitives                                                        *)
(* ---------------------------------------------------------------------- *)
UpperLetters == <<"A", "B", "C", "D", "E", "F", "G", "H", "I", "J", "K", "L", "M",
                  "N", "O", "P", "Q", "R", "S", "T", "U", "V", "W", "X", "Y", "Z">>
LowerLetters == <<"a", "b", "c", "d", "e", "f", "g", "h", "i", "j", "k", "l", "m",
                  "n", "o", "p", "q", "r", "s", "t", "u", "v", "w", "x", "y", "z">>
lowerChar(c) ==
  IF \E i \in 1..Len(UpperLetters) : UpperLetters[i] = c
    THEN LowerLetters[CHOOSE i \in 1..Len(UpperLetters) : UpperLetters[i] = c]
    ELSE c
toLowerCase(text) == [i \in 1..Len(text) |-> lowerChar(text[i])]

(* String.prototype.includes *)
includes(text, pattern) ==
  \E i \in 0..(Len(text) - Len(pattern)) : SubSeq(text, i + 1, i + Len(pattern)) = pattern

(* String.prototype.replace with a string pattern: the first occurrence only *)
replace(text, pattern, by) ==
  IF includes(text, pattern)
    THEN LET i == CHOOSE k \in 0..(Len(text) - Len(pattern)) :
                    /\ SubSeq(text, k + 1, k + Len(pattern)) = pattern
                    /\ \A j \in 0..(k - 1) : SubSeq(text, j + 1, j + Len(pattern)) # pattern
         IN SubSeq(text, 1, i) \o by \o SubSeq(text, i + Len(pattern) + 1, Len(text))
    ELSE text

(* ---------------------------------------------------------------------- *)
(* Natural language understanding                                           *)
(* ---------------------------------------------------------------------- *)
(* words.forEach(w => { if (text.includes(w)) slot = w }): the last match   *)
RECURSIVE lastMatch(_, _, _)
lastMatch(words, text, slot) ==
  IF words = << >> THEN slot
  ELSE lastMatch(Tail(words), text, IF includes(text, Head(words)) THEN Head(words) ELSE slot)

extractEntities(text) ==
  [crop     |-> lastMatch(cropWords, text, NoStr),
   disease  |-> lastMatch(diseaseWords, text, NoStr),
   pest     |-> lastMatch(pestWords, text, NoStr),
   location |-> NoStr,
   season   |-> NoStr]

classifyIntent(text) ==
  LET hit(i) == \E k \in 1..Len(intentPatterns[i].patterns) :
                   includes(text, intentPatterns[i].patterns[k])
  IN IF \E i \in 1..Len(intentPatterns) : hit(i)
       THEN intentPatterns[CHOOSE i \in 1..Len(intentPatterns) :
                             hit(i) /\ \A j \in 1..(i - 1) : ~hit(j)].intent
       ELSE "general_query"

RECURSIVE replacePhrases(_, _)
replacePhrases(phrases, text) ==
  IF phrases = << >> THEN text
  ELSE replacePhrases(Tail(phrases), replace(text, Head(phrases).malayalam, Head(phrases).english))

translateMalayalam(text) == replacePhrases(commonPhrases, text)

NoEntities == [crop |-> NoStr, disease |-> NoStr, pest |-> NoStr, location |-> NoStr, season |-> NoStr]

(* nlpResult = null: the text was empty and NLU did not run *)
NoNlp ==
  [present |-> FALSE, error |-> FALSE, originalText |-> NoStr, translatedText |-> NoStr,
   entities |-> NoEntities, intent |-> "", confidence |-> Undefined]

(* { error: "Could not process natural language input" } *)
NlpError ==
  [present |-> TRUE, error |-> TRUE, originalText |-> NoStr, translatedText |-> NoStr,
   entities |-> NoEntities, intent |-> "", confidence |-> Undefined]

NlpConfidence == 85

(* text is the JavaScript value of processedQuery; text.toLowerCase() throws *)
(* a TypeError for a value that is not a string, which the catch turns into  *)
(* the error-marked result.                                                  *)
processNaturalLanguage(text, language) ==
  IF text.type # "string" THEN NlpError
  ELSE LET entities == extractEntities(toLowerCase(text.chars))
           translated == IF language = "ml" THEN translateMalayalam(text.chars) ELSE text.chars
       IN [present |-> TRUE, error |-> FALSE,
           originalText |-> translated,
           translatedText |-> IF language = "ml" THEN translated ELSE NoStr,
           entities |-> entities,
           intent |-> classifyIntent(translated),
           confidence |-> Num(NlpConfidence)]

(* ---------------------------------------------------------------------- *)
(* Knowledge base                                                           *)
(* ---------------------------------------------------------------------- *)
(* The own keys of cropDatabase. *)
KnownCrops == {s_banana, s_rice, s_tomato}

(* cropDatabase and schemes are object literals: a key they do not own but   *)
(* Object.prototype does ("constructor", "toString", ...) reads as a truthy  *)
(* value that has none of the entry's fields.                                *)
ObjectPrototypeKeys == {s_constructor}

(* cropDatabase[crop]: "entry" for an own key, "inherited" for a key of      *)
(* Object.prototype, "undefined" otherwise.                                  *)
cropDatabase(crop) ==
  IF crop \in KnownCrops THEN "entry"
  ELSE IF crop \in ObjectPrototypeKeys THEN "inherited"
  ELSE "undefined"

cropPests(crop) ==
  IF crop = s_banana THEN <<"aphids", "nematodes", "thrips">>
  ELSE IF crop = s_rice THEN <<"stem borer", "brown planthopper", "leaf folder">>
  ELSE <<"whitefly", "fruit borer", "aphids">>

(* cropInfo.pesticides: the pairs (disease key, treatment) in declared order *)
cropPesticides(crop) ==
  IF crop = s_banana
    THEN << <<"leaf spot", "Copper oxychloride 0.3% or Mancozeb 0.2%">>,
            <<"black sigatoka", "Propiconazole 0.1%">> >>
  ELSE IF crop = s_rice
    THEN << <<"blast", "Tricyclazole 0.06% or Carbendazim 0.1%">>,
            <<"brown spot", "Mancozeb 0.2%">> >>
  ELSE << <<"late blight", "Metalaxyl + Mancozeb 0.2%">>,
          <<"early blight", "Chlorothalonil 0.2%">> >>

schemes(location) ==
  IF location = s_kerala
    THEN [found |-> "entry",
          names |-> <<"Krishi Bhavan Support", "Organic Farming Subsidy", "Crop Insurance">>]
  ELSE IF location \in ObjectPrototypeKeys THEN [found |-> "inherited", names |-> << >>]
  ELSE [found |-> "undefined", names |-> << >>]

(* ---------------------------------------------------------------------- *)
(* Image analysis and voice processing                                      *)
(* ---------------------------------------------------------------------- *)
diseasePatterns == <<
    [pattern |-> s_spot,   disease |-> "Leaf Spot",           confidence |-> 82,
     symptom |-> "Visible spot patterns"],
    [pattern |-> s_blight, disease |-> "Late Blight",         confidence |-> 89,
     symptom |-> "Visible blight patterns"],
    [pattern |-> s_yellow, disease |-> "Nutrient Deficiency", confidence |-> 75,
     symptom |-> "Visible yellow patterns"],
    [pattern |-> s_brown,  disease |-> "Fungal Infection",    confidence |-> 78,
     symptom |-> "Visible brown patterns"]
  >>

(* disease.toLowerCase() for the labels the classifier produces *)
diseaseKey(disease) ==
  CASE disease = "Leaf Spot" -> "leaf spot"
    [] disease = "Late Blight" -> "late blight"
    [] disease = "Nutrient Deficiency" -> "nutrient deficiency"
    [] disease = "Fungal Infection" -> "fungal infection"
    [] OTHER -> "unknown condition"

HighSeverityAbove == 80
UnknownConfidence == 45

(* imageAnalysis = null: no image in the request *)
NoImage ==
  [present |-> FALSE, error |-> FALSE, disease |-> "", confidence |-> Undefined,
   symptoms |-> << >>, severity |-> ""]

(* { error: "Could not analyze image" }: disease and confidence are undefined *)
ImageError ==
  [present |-> TRUE, error |-> TRUE, disease |-> "", confidence |-> Undefined,
   symptoms |-> << >>, severity |-> ""]

(* fileName is path.basename(imagePath) *)
analyzeImage(fileName) ==
  LET name == toLowerCase(fileName)
      hit(i) == includes(name, diseasePatterns[i].pattern)
  IN IF \E i \in 1..Len(diseasePatterns) : hit(i)
       THEN LET r == diseasePatterns[CHOOSE i \in 1..Len(diseasePatterns) :
                                       hit(i) /\ \A j \in 1..(i - 1) : ~hit(j)]
            IN [present |-> TRUE, error |-> FALSE, disease |-> r.disease,
                confidence |-> Num(r.confidence),
                symptoms |-> <<r.symptom, "Affected leaf areas">>,
                severity |-> IF r.confidence > HighSeverityAbove THEN "high" ELSE "medium"]
       ELSE [present |-> TRUE, error |-> FALSE, disease |-> "Unknown condition",
             confidence |-> Num(UnknownConfidence),
             symptoms |-> <<"Unclear symptoms from image">>, severity |-> "low"]

(* the mock transcription: a fixed Malayalam sentence.  Its first word ends  *)
(* in the chillu letter u0D7D, the phrase table's in u0D32 u0D4D.            *)
processVoice ==
  [text |-> JsString(
     <<"u0D35", "u0D3E", "u0D34", "u0D2F", "u0D3F", "u0D7D", " ",
       "u0D2A", "u0D41", "u0D33", "u0D4D", "u0D33", "u0D3F", " ">>
     \o ml_rogam
     \o <<" ", "u0D35", "u0D28", "u0D4D", "u0D28", "u0D3F", "u0D1F", "u0D4D", "u0D1F",
          "u0D41", "u0D23", "u0D4D", "u0D1F", "u0D4D", ",", " ",
          "u0D0E", "u0D28", "u0D4D", "u0D24", "u0D4D", " ",
          "u0D2E", "u0D30", "u0D41", "u0D28", "u0D4D", "u0D28", "u0D4D", " ",
          "u0D09", "u0D2A", "u0D2F", "u0D4B", "u0D17", "u0D3F", "u0D15", "u0D4D",
          "u0D15", "u0D23", "u0D02", "?">>),
   language |-> "ml", confidence |-> 87]

(* ---------------------------------------------------------------------- *)
(* Utility functions                                                        *)
(* ---------------------------------------------------------------------- *)
getCurrentSeason(month) ==
  IF month >= 6 /\ month <= 9 THEN "monsoon"
  ELSE IF month >= 10 /\ month <= 2 THEN "post-monsoon"
  ELSE "pre-monsoon"

getLocalWeather ==
  [condition |-> "partly cloudy", temperature |-> 28, humidity |-> 75, rainfall |-> "moderate"]

NoCalendar == [present |-> FALSE, plantingSeason |-> "", harvestSeason |-> "", nextActivity |-> ""]

cropSeasons(crop) ==
  IF crop = s_banana THEN [plant |-> "June-July", harvest |-> "April-May"]
  ELSE IF crop = s_rice THEN [plant |-> "May-June, Nov-Dec", harvest |-> "Sep-Oct, Mar-Apr"]
  ELSE [plant |-> "Oct-Nov, Jan-Feb", harvest |-> "Dec-Jan, Apr-May"]

(* getCropCalendar(crop, location); for an inherited key cropInfo.seasons is *)
(* undefined and reading .plant throws: see getCropCalendarThrows.           *)
getCropCalendar(crop) ==
  IF cropDatabase(crop) = "entry"
    THEN [present |-> TRUE, plantingSeason |-> cropSeasons(crop).plant,
          harvestSeason |-> cropSeasons(crop).harvest,
          nextActivity |-> "Apply fertilizer in 2 weeks"]
    ELSE NoCalendar

getCropCalendarThrows(crop) == cropDatabase(crop) = "inherited"

(* ---------------------------------------------------------------------- *)
(* Advice generation                                                        *)
(* ---------------------------------------------------------------------- *)
(* An advice text is kept as the template that produced it and the values    *)
(* substituted into it; urgent says that the sentence "This is a serious     *)
(* condition requiring immediate attention." is part of the text, seasonal   *)
(* that the drainage sentence is.                                            *)
NoAdvice ==
  [kind |-> "", disease |-> "", crop |-> NoStr, location |-> NoStr, season |-> "",
   treatment |-> "", urgent |-> FALSE, seasonal |-> FALSE, names |-> << >>]

Or(a, b) == IF a # NoStr THEN a ELSE b

(* array.slice(-n) *)
sliceLast(s, n) == IF Len(s) <= n THEN s ELSE SubSeq(s, Len(s) - n + 1, Len(s))

HistoryLimit == 5

NoContext ==
  [location |-> NoStr, crop |-> NoStr, season |-> "", previousQueries |-> << >>,
   cropCalendar |-> NoCalendar]

(* cropInfo.pesticides[disease.toLowerCase()] || the first listed treatment *)
treatmentFor(crop, disease) ==
  LET table == cropPesticides(crop)
  IN IF \E i \in 1..Len(table) : table[i][1] = diseaseKey(disease)
       THEN table[CHOOSE i \in 1..Len(table) : table[i][1] = diseaseKey(disease)][2]
       ELSE table[1][2]

(* disease.toLowerCase() on an undefined disease, or cropInfo.pesticides of  *)
(* an inherited key                                                          *)
generateDiseaseAdviceThrows(imageAnalysis, context) ==
  \/ cropDatabase(context.crop) = "inherited"
  \/ cropDatabase(context.crop) = "entry" /\ imageAnalysis.error

generateDiseaseAdvice(imageAnalysis, context) ==
  IF cropDatabase(context.crop) = "undefined"
    THEN [NoAdvice EXCEPT !.kind = "disease_general", !.disease = imageAnalysis.disease]
    ELSE [NoAdvice EXCEPT !.kind = "disease_treatment",
                          !.disease = imageAnalysis.disease,
                          !.crop = context.crop,
                          !.urgent = (imageAnalysis.severity = "high"),
                          !.treatment = treatmentFor(context.crop, imageAnalysis.disease),
                          !.seasonal = (context.season # ""),
                          !.season = context.season]

(* cropInfo.pests.join of an inherited key; locationSchemes.map of one *)
generateIntentBasedAdviceThrows(nlp, context) ==
  \/ nlp.intent = "pest_control" /\ cropDatabase(context.crop) = "inherited"
  \/ nlp.intent = "scheme_info" /\ schemes(toLowerCase(context.location)).found = "inherited"

generateIntentBasedAdvice(nlp, context) ==
  CASE nlp.intent = "disease_diagnosis" ->
         [NoAdvice EXCEPT !.kind = "upload_photo", !.crop = context.crop,
                          !.location = context.location]
    [] nlp.intent = "pest_control" ->
         IF cropDatabase(context.crop) = "entry"
           THEN [NoAdvice EXCEPT !.kind = "common_pests", !.crop = context.crop,
                                 !.names = cropPests(context.crop)]
           ELSE [NoAdvice EXCEPT !.kind = "pest_general", !.crop = context.crop]
    [] nlp.intent = "fertilizer_advice" ->
         [NoAdvice EXCEPT !.kind = "fertilizer", !.crop = context.crop,
                          !.season = IF context.season # "" THEN context.season
                                     ELSE "current season"]
    [] nlp.intent = "scheme_info" ->
         [NoAdvice EXCEPT !.kind = "schemes",
                          !.names = schemes(toLowerCase(context.location)).names]
    [] OTHER ->
         [NoAdvice EXCEPT !.kind = "more_details", !.crop = context.crop]

getContextualRecommendations(context) ==
  (IF getLocalWeather.condition = "rainy" THEN <<"drainage">> ELSE << >>)
  \o (IF context.season = "monsoon" THEN <<"surveillance">> ELSE << >>)
  \o (IF context.cropCalendar.nextActivity # ""
        THEN <<context.cropCalendar.nextActivity>> ELSE << >>)

(* { error: "Could not generate advice" }: every other field is undefined *)
AdviceError ==
  [error |-> TRUE, mainAdvice |-> NoAdvice, recommendations |-> << >>,
   confidence |-> Undefined, shouldEscalate |-> "undefined", context |-> NoContext]

EscalateBelow == 60
DefaultNlpConfidence == 70
NoSignalConfidence == 30

(* confidence < 0.3: the flag computed with the cutoff of the last branch *)
shouldEscalateOf_lowCutoff(confidence) ==
  IF JsLess(confidence, NoSignalConfidence) THEN "true" ELSE "false"

(* confidence < 0.6, a boolean *)
shouldEscalateOf(confidence) == IF JsLess(confidence, EscalateBelow) THEN "true" ELSE "false"

(* generateAdvice(query, context, farmerHistory): context carries nlp,       *)
(* imageAnalysis, crop, location, season and farmerId; store is the farmers  *)
(* map, month the clock's month; farmerHistory is a sequence of positions in *)
(* the query log.                                                            *)
generateAdvice(context, farmerHistory, store, month) ==
  LET nlp == context.nlp
      imageAnalysis == context.imageAnalysis
      profileLocation == IF context.farmerId \in DOMAIN store
                           THEN store[context.farmerId].location ELSE NoStr
      aiContext ==
        [location |-> Or(context.location, profileLocation),
         crop |-> Or(context.crop, nlp.entities.crop),
         season |-> IF context.season # "" THEN context.season ELSE getCurrentSeason(month),
         previousQueries |-> sliceLast(farmerHistory, HistoryLimit),
         cropCalendar |-> getCropCalendar(context.crop)]
      branch == IF imageAnalysis.present /\ imageAnalysis.disease # "Unknown condition"
                  THEN "image"
                ELSE IF nlp.present /\ nlp.intent # "" THEN "intent"
                ELSE "none"
      throws ==
        \/ getCropCalendarThrows(context.crop)
        \/ branch = "image" /\ generateDiseaseAdviceThrows(imageAnalysis, aiContext)
        \/ branch = "intent" /\ generateIntentBasedAdviceThrows(nlp, aiContext)
      advice == CASE branch = "image" -> generateDiseaseAdvice(imageAnalysis, aiContext)
                  [] branch = "intent" -> generateIntentBasedAdvice(nlp, aiContext)
                  [] OTHER -> [NoAdvice EXCEPT !.kind = "need_more_information"]
      confidence ==
        CASE branch = "image" -> imageAnalysis.confidence
          [] branch = "intent" -> IF nlp.confidence.def /\ nlp.confidence.val # 0
                                    THEN nlp.confidence ELSE Num(DefaultNlpConfidence)
          [] OTHER -> Num(NoSignalConfidence)
  IN IF throws THEN AdviceError
     ELSE [error |-> FALSE, mainAdvice |-> advice,
           recommendations |-> getContextualRecommendations(aiContext),
           confidence |-> confidence,
           shouldEscalate |-> shouldEscalateOf(confidence),
           context |-> aiContext]

(* ---------------------------------------------------------------------- *)
(* State                                                                    *)
(* ---------------------------------------------------------------------- *)
VARIABLES
  farmers,      \* Map: farmer id -> profile
  escalations,  \* array of escalation records
  queries,      \* array of query records
  feedback,     \* array of feedback entries
  now,          \* the clock: Date.now() and new Date()
  response,     \* the last response sent to a caller
  inflight,     \* the /api/query handlers suspended at an await, by slot
  call          \* the last call of a function on its own: name, arguments, result

vars == <<farmers, escalations, queries, feedback, now, response, inflight, call>>

(* ---------------------------------------------------------------------- *)
(* Learning loop                                                            *)
(* ---------------------------------------------------------------------- *)
(* feedback = null.  A feedback entry also carries comments and a timestamp,  *)
(* which nothing reads; they are left out.                                   *)
NoFeedback == [present |-> FALSE, queryId |-> 0, rating |-> 0, isHelpful |-> FALSE]

newQueryRecord(query, aiResponse, clock) ==
  [id |-> clock, timestamp |-> clock, query |-> query, response |-> aiResponse,
   feedback |-> NoFeedback, farmerId |-> query.farmerId]

(* the profile created with the first record's id already in its history *)
newFarmerProfile_seeded(query, clock) ==
  [id |-> query.farmerId, location |-> query.location, crops |-> << >>,
   queryHistory |-> <<clock>>, joinDate |-> clock]

newFarmerProfile(query, clock) ==
  [id |-> query.farmerId, location |-> query.location, crops |-> << >>,
   queryHistory |-> << >>, joinDate |-> clock]

arrayIncludes(array, x) == \E i \in 1..Len(array) : array[i] = x

(* the push without the includes test *)
addCrop_noIncludes(crops, crop) == IF crop # NoStr THEN Append(crops, crop) ELSE crops

(* farmer.crops after the push guarded by includes *)
addCrop(crops, crop) ==
  IF crop # NoStr /\ ~arrayIncludes(crops, crop) THEN Append(crops, crop) ELSE crops

(* recordQuery without the creation of a missing profile *)
upsertFarmer_noCreate(store, query, recordId, clock) ==
  IF query.farmerId \in DOMAIN store
    THEN [store EXCEPT ![query.farmerId].queryHistory = Append(@, recordId)]
    ELSE store

(* the farmers map after recordQuery(query, response) *)
upsertFarmer(store, query, recordId, clock) ==
  LET farmer == IF query.farmerId \in DOMAIN store THEN store[query.farmerId]
                ELSE newFarmerProfile(query, clock)
      updated == [farmer EXCEPT !.queryHistory = Append(@, recordId),
                                !.crops = addCrop(@, query.crop)]
  IN [f \in DOMAIN store \cup {query.farmerId} |->
        IF f = query.farmerId THEN updated ELSE store[f]]

recordQuery(query, aiResponse) ==
  /\ queries' = Append(queries, newQueryRecord(query, aiResponse, now))
  /\ farmers' = upsertFarmer(farmers, query, now, now)

(* ---------------------------------------------------------------------- *)
(* Escalation policy                                                        *)
(* ---------------------------------------------------------------------- *)
HighPriorityBelow == 40

(* aiResponse.confidence < 0.3: the flag dropped and the cutoff mistyped *)
needsEscalation_wrongCutoff(aiResponse) == JsLess(aiResponse.confidence, NoSignalConfidence)

(* aiResponse.shouldEscalate || aiResponse.confidence < 0.6 *)
needsEscalation(aiResponse) ==
  aiResponse.shouldEscalate = "true" \/ JsLess(aiResponse.confidence, EscalateBelow)

(* aiResponse.confidence < 0.3 ? 'high' : 'medium' *)
priorityOf_wrongCutoff(aiResponse) ==
  IF JsLess(aiResponse.confidence, NoSignalConfidence) THEN "high" ELSE "medium"

priorityOf(aiResponse) ==
  IF JsLess(aiResponse.confidence, HighPriorityBelow) THEN "high" ELSE "medium"

newEscalation(req, processedQuery, nlpResult, imageAnalysis, aiResponse, clock) ==
  [id |-> clock, farmerId |-> req.farmerId, originalQuery |-> processedQuery,
   nlpResult |-> nlpResult, imageAnalysis |-> imageAnalysis, aiResponse |-> aiResponse,
   location |-> req.location, crop |-> req.crop, priority |-> priorityOf(aiResponse),
   createdAt |-> clock]

(* ---------------------------------------------------------------------- *)
(* POST /api/query                                                          *)
(* ---------------------------------------------------------------------- *)
(* A request: the body fields after their defaults, the uploaded image's     *)
(* file name (hasImage says whether there is one) and whether an audio file  *)
(* came with it.                                                             *)

(* language is declared const by the destructuring of req.body, so the       *)
(* assignment language = voiceResult.language || language throws a TypeError *)
(* whenever the transcription has a text.                                    *)
voiceAssignmentThrows(req) == req.hasAudio /\ Truthy(processVoice.text)

processedQueryOf(req) ==
  IF req.hasAudio /\ Truthy(processVoice.text) THEN processVoice.text ELSE req.queryText

nlpResultOf(req) ==
  IF Truthy(processedQueryOf(req))
    THEN processNaturalLanguage(processedQueryOf(req), req.language)
    ELSE NoNlp

imageAnalysisOf(req) == IF req.hasImage THEN analyzeImage(req.imageName) ELSE NoImage

(* queries.filter(q => q.query.farmerId === farmerId), as positions in log *)
RECURSIVE positionsOf(_, _, _)
positionsOf(log, farmerId, i) ==
  IF i > Len(log) THEN << >>
  ELSE (IF log[i].query.farmerId = farmerId THEN <<i>> ELSE << >>)
       \o positionsOf(log, farmerId, i + 1)

farmerHistoryOf(log, farmerId) == positionsOf(log, farmerId, 1)

queryOf(req) ==
  [queryText |-> processedQueryOf(req), farmerId |-> req.farmerId, crop |-> req.crop,
   location |-> req.location, season |-> req.season]

contextOf(req) ==
  [nlp |-> nlpResultOf(req), imageAnalysis |-> imageAnalysisOf(req), crop |-> req.crop,
   location |-> req.location, season |-> req.season, farmerId |-> req.farmerId]

queryResponse(req, aiResponse, status, month) ==
  [op |-> "query", code |-> 200,
   body |-> [answer |-> aiResponse.mainAdvice,
             recommendations |-> aiResponse.recommendations,
             confidence |-> aiResponse.confidence,
             status |-> status,
             context |-> [detectedCrop |-> Or(nlpResultOf(req).entities.crop, req.crop),
                          detectedDisease |-> imageAnalysisOf(req).disease,
                          season |-> IF req.season # "" THEN req.season
                                     ELSE getCurrentSeason(month),
                          language |-> req.language],
             processingDetails |-> [nlpProcessed |-> nlpResultOf(req).present,
                                    imageProcessed |-> imageAnalysisOf(req).present,
                                    voiceProcessed |-> req.hasAudio]]]

errorResponse(op) == [op |-> op, code |-> 500, body |-> "error"]

(* lines 473-523: the escalation decision, recordQuery and the response *)
decideAndRecord(req, aiResponse, month) ==
  LET escalate == needsEscalation(aiResponse)
  IN /\ escalations' =
          IF escalate
            THEN Append(escalations,
                        newEscalation(req, processedQueryOf(req), nlpResultOf(req),
                                      imageAnalysisOf(req), aiResponse, now))
            ELSE escalations
     /\ recordQuery(queryOf(req), aiResponse)
     /\ response' = queryResponse(req, aiResponse,
                                  IF escalate THEN "escalated" ELSE "answered", month)

(* The whole handler, for a request that is handled with no other handler    *)
(* suspended (the event-loop specification below has the handler step by     *)
(* step).                                                                    *)
processQuery(req, month) ==
  IF voiceAssignmentThrows(req)
    THEN /\ response' = errorResponse("query")
         /\ UNCHANGED <<farmers, escalations, queries>>
    ELSE decideAndRecord(req,
                         generateAdvice(contextOf(req),
                                        farmerHistoryOf(queries, req.farmerId),
                                        farmers, month),
                         month)

(* ---------------------------------------------------------------------- *)
(* POST /api/feedback                                                       *)
(* ---------------------------------------------------------------------- *)
newFeedbackEntry(queryId, rating, isHelpful) ==
  [present |-> TRUE, queryId |-> queryId, rating |-> rating, isHelpful |-> isHelpful]

(* queries.findIndex(q => q.id === queryId); 0 stands for -1 *)
findIndex(log, queryId) ==
  IF \E i \in 1..Len(log) : log[i].id = queryId
    THEN CHOOSE i \in 1..Len(log) :
           log[i].id = queryId /\ \A j \in 1..(i - 1) : log[j].id # queryId
    ELSE 0

(* the rated record taken out of the log: queries.splice(queryIndex, 1) *)
attachFeedback_splice(log, entry) ==
  IF findIndex(log, entry.queryId) # 0
    THEN [j \in 1..(Len(log) - 1) |->
            IF j < findIndex(log, entry.queryId) THEN log[j] ELSE log[j + 1]]
    ELSE log

attachFeedback(log, entry) ==
  IF findIndex(log, entry.queryId) # 0
    THEN [log EXCEPT ![findIndex(log, entry.queryId)].feedback = entry]
    ELSE log

submitFeedback(queryId, rating, isHelpful) ==
  LET feedbackEntry == newFeedbackEntry(queryId, rating, isHelpful)
  IN /\ feedback' = Append(feedback, feedbackEntry)
     /\ queries' = attachFeedback(queries, feedbackEntry)
     /\ response' = [op |-> "feedback", code |-> 200, body |-> "Feedback recorded successfully"]

(* ---------------------------------------------------------------------- *)
(* GET /api/escalations                                                     *)
(* ---------------------------------------------------------------------- *)
EscalationsLimit == 50

NoFarmerInfo == [id |-> "", location |-> NoStr, crops |-> << >>, queryHistory |-> << >>, joinDate |-> 0]

listEscalations ==
  LET recent == sliceLast(escalations, EscalationsLimit)
  IN [op |-> "escalations", code |-> 200,
      body |-> [i \in 1..Len(recent) |->
                  [esc |-> recent[i],
                   farmerInfo |-> IF recent[i].farmerId \in DOMAIN farmers
                                    THEN farmers[recent[i].farmerId] ELSE NoFarmerInfo]]]

(* ---------------------------------------------------------------------- *)
(* GET /api/analytics                                                       *)
(* ---------------------------------------------------------------------- *)
(* (a / b * scale).toFixed(..) in units of the last digit kept, rounded to   *)
(* the nearest; 0 / 0 is NaN and a / 0 is Infinity.                          *)
ratioFixed(a, b, scale) ==
  IF b = 0 THEN [kind |-> IF a = 0 THEN "NaN" ELSE "Infinity", val |-> 0]
  ELSE [kind |-> "number", val |-> (2 * a * scale + b) \div (2 * b)]

(* the sum over the records that carry feedback only *)
RECURSIVE sumConfidence_ratedOnly(_)
sumConfidence_ratedOnly(log) ==
  IF log = << >> THEN 0
  ELSE (IF Head(log).feedback.present /\ Head(log).response.confidence.def
          THEN Head(log).response.confidence.val ELSE 0)
       + sumConfidence_ratedOnly(Tail(log))

RECURSIVE sumConfidence(_)
sumConfidence(log) ==
  IF log = << >> THEN 0
  ELSE (IF Head(log).response.confidence.def THEN Head(log).response.confidence.val ELSE 0)
       + sumConfidence(Tail(log))

RECURSIVE dedupe(_, _)
dedupe(keys, seen) ==
  IF keys = << >> THEN seen
  ELSE dedupe(Tail(keys), IF arrayIncludes(seen, Head(keys)) THEN seen ELSE Append(seen, Head(keys)))

countOf(keys, k) == Cardinality({i \in 1..Len(keys) : keys[i] = k})

(* Object.entries(count).sort(([,a], [,b]) => b - a).slice(0, 5): the keys   *)
(* in their order of first appearance, stably sorted by descending count     *)
RECURSIVE sortedByCount(_, _)
sortedByCount(keys, pending) ==
  IF pending = << >> THEN << >>
  ELSE LET best == CHOOSE i \in 1..Len(pending) :
                     /\ \A j \in 1..Len(pending) : countOf(keys, pending[j]) <= countOf(keys, pending[i])
                     /\ \A j \in 1..(i - 1) : countOf(keys, pending[j]) < countOf(keys, pending[i])
           rest == [j \in 1..(Len(pending) - 1) |-> IF j < best THEN pending[j] ELSE pending[j + 1]]
       IN << <<pending[best], countOf(keys, pending[best])>> >> \o sortedByCount(keys, rest)

TopLimit == 5

topEntries(keys) ==
  LET sorted == sortedByCount(keys, dedupe(keys, << >>))
  IN SubSeq(sorted, 1, IF Len(sorted) < TopLimit THEN Len(sorted) ELSE TopLimit)

(* the farmer ids in the Map's insertion order: the order of their first    *)
(* record in the query log                                                   *)
farmerOrder == dedupe([i \in 1..Len(queries) |-> queries[i].farmerId], << >>)

RECURSIVE concatCrops(_)
concatCrops(ids) ==
  IF ids = << >> THEN << >>
  ELSE (IF Head(ids) \in DOMAIN farmers THEN farmers[Head(ids)].crops ELSE << >>)
       \o concatCrops(Tail(ids))

getTopCrops == topEntries(concatCrops(farmerOrder))

RECURSIVE escalatedDiseases(_)
escalatedDiseases(escs) ==
  IF escs = << >> THEN << >>
  ELSE (IF Head(escs).imageAnalysis.disease # "" THEN <<Head(escs).imageAnalysis.disease>> ELSE << >>)
       \o escalatedDiseases(Tail(escs))

getTopDiseases == topEntries(escalatedDiseases(escalations))

(* q.query.language || 'en'.  The query object that line 493 passes to       *)
(* recordQuery has no language field.                                        *)
languageOf(q) ==
  IF "language" \in DOMAIN q.query /\ q.query.language # "" THEN q.query.language ELSE "en"

LanguageBuckets == {"en", "ml", "hi", "other"}

(* langCount[lang] = (langCount[lang] || 0) + 1: a language outside the      *)
(* buckets gets a key of its own                                             *)
getLanguageDistribution ==
  LET seen == {languageOf(queries[i]) : i \in 1..Len(queries)}
  IN [lang \in LanguageBuckets \cup seen |->
        Cardinality({i \in 1..Len(queries) : languageOf(queries[i]) = lang})]

getAnalytics ==
  [op |-> "analytics", code |-> 200,
   body |-> [totalQueries |-> Len(queries),
             totalFarmers |-> Cardinality(DOMAIN farmers),
             escalationRate |-> ratioFixed(Len(escalations), Len(queries), 1000),
             avgConfidence |-> ratioFixed(sumConfidence(queries), Len(queries), 1),
             topCrops |-> getTopCrops,
             topDiseases |-> getTopDiseases,
             languageDistribution |-> getLanguageDistribution]]

(* ---------------------------------------------------------------------- *)
(* Bounds and inputs                                                        *)
(* ---------------------------------------------------------------------- *)
MaxQueries == 2
MaxFeedback == 1
MaxClock == 1
MaxInflight == 2

FarmerIds == {"anonymous", "f1"}
s_pests_on_rice == s_pest \o <<"s", " ", "o", "n", " ">> \o s_rice
QueryTexts == {JsString(NoStr), JsString(s_pests_on_rice), JsNumber(<<"5">>)}
CropInputs == {NoStr, s_constructor}
ImageNames == {s_blight, <<"x">>}
Months == {7}

(* the fields every request below shares *)
plainRequest ==
  [queryText |-> JsString(NoStr), location |-> NoStr, crop |-> NoStr, farmerId |-> "anonymous",
   language |-> "en", season |-> "", hasImage |-> FALSE, imageName |-> NoStr,
   hasAudio |-> FALSE]

(* requests of farmer f1 about rice, one per text; requests of an anonymous  *)
(* farmer without text, one per crop and one per image; and each of them     *)
(* with an audio file as well                                                *)
Requests ==
  LET textRequests ==
        {[plainRequest EXCEPT !.queryText = t, !.crop = s_rice, !.farmerId = "f1"] :
           t \in QueryTexts}
      cropRequests == {[plainRequest EXCEPT !.crop = c] : c \in CropInputs}
      imageRequests ==
        {[plainRequest EXCEPT !.hasImage = TRUE, !.imageName = n] : n \in ImageNames}
      silent == textRequests \cup cropRequests \cup imageRequests
  IN silent \cup {[r EXCEPT !.hasAudio = TRUE] : r \in silent}

(* ---------------------------------------------------------------------- *)
(* The event loop                                                           *)
(* ---------------------------------------------------------------------- *)
(* A handler of /api/query suspends at each await it executes.  The          *)
(* collaborators it awaits (processVoice, processNaturalLanguage, analyze-   *)
(* Image, generateAdvice and what that awaits) resolve without I/O, so each  *)
(* continuation is a microtask.  One macrotask can start several handlers    *)
(* (requests pipelined on a connection are dispatched from the same read):   *)
(* each runs up to its first await; the continuations of all of them run     *)
(* afterwards, and the loop takes the next macrotask only when the microtask *)
(* queue is empty.  resumed says that the handler in a slot has run a        *)
(* continuation.                                                             *)
Slots == 1..MaxInflight

NoRequest ==
  [queryText |-> JsString(NoStr), location |-> NoStr, crop |-> NoStr, farmerId |-> "",
   language |-> "", season |-> "", hasImage |-> FALSE, imageName |-> NoStr,
   hasAudio |-> FALSE]

IdleSlot ==
  [pc |-> "idle", resumed |-> FALSE, req |-> NoRequest, month |-> 0,
   farmerHistory |-> << >>, farmerProfile |-> NoFarmerInfo, aiResponse |-> AdviceError]

(* farmers.get(farmerId) || {} *)
farmerProfileOf(store, farmerId) ==
  IF farmerId \in DOMAIN store THEN store[farmerId] ELSE NoFarmerInfo

(* a handler can start as long as no continuation has run since the         *)
(* microtask queue was last empty                                            *)
handlerMayStart == ~\E s \in Slots : inflight[s].pc # "idle" /\ inflight[s].resumed

(* where the handler suspends next: the await of line 455, 460 or 467 *)
afterImage(req) == "advice"
afterNlp(req) == IF req.hasImage THEN "image" ELSE afterImage(req)
afterVoice(req) == IF Truthy(processedQueryOf(req)) THEN "nlp" ELSE afterNlp(req)
afterReceive(req) == IF req.hasAudio THEN "voice" ELSE afterVoice(req)

(* the slot when the handler suspends at pc; on the way to the await of      *)
(* generateAdvice it has read the query log (line 464) and the farmers map   *)
(* (line 236)                                                                *)
suspendedAt(pc, resumed, req, month) ==
  IF pc = "advice"
    THEN [pc |-> pc, resumed |-> resumed, req |-> req, month |-> month,
          farmerHistory |-> farmerHistoryOf(queries, req.farmerId),
          farmerProfile |-> farmerProfileOf(farmers, req.farmerId),
          aiResponse |-> generateAdvice(contextOf(req),
                                        farmerHistoryOf(queries, req.farmerId),
                                        farmers, month)]
    ELSE [IdleSlot EXCEPT !.pc = pc, !.resumed = resumed, !.req = req, !.month = month]

inflightCount == Cardinality({s \in Slots : inflight[s].pc # "idle"})

(* ---------------------------------------------------------------------- *)
(* Specification: one action per handler                                    *)
(* ---------------------------------------------------------------------- *)
NoResponse == [op |-> "none", code |-> 0, body |-> "none"]

NoCall == [fn |-> "none"]

Init ==
  /\ farmers = << >>
  /\ escalations = << >>
  /\ queries = << >>
  /\ feedback = << >>
  /\ now = 0
  /\ response = NoResponse
  /\ inflight = [s \in Slots |-> IdleSlot]
  /\ call = NoCall

ProcessQuery ==
  /\ handlerMayStart
  /\ Len(queries) < MaxQueries
  /\ \E req \in Requests, month \in Months : processQuery(req, month)
  /\ UNCHANGED <<feedback, now, inflight, call>>

SubmitFeedback ==
  /\ handlerMayStart
  /\ Len(feedback) < MaxFeedback
  /\ \E queryId \in 0..MaxClock, rating \in {5}, isHelpful \in {TRUE} :
       submitFeedback(queryId, rating, isHelpful)
  /\ UNCHANGED <<farmers, escalations, now, inflight, call>>

ListEscalations ==
  /\ handlerMayStart
  /\ response' = listEscalations
  /\ UNCHANGED <<farmers, escalations, queries, feedback, now, inflight, call>>

GetAnalytics ==
  /\ handlerMayStart
  /\ response' = getAnalytics
  /\ UNCHANGED <<farmers, escalations, queries, feedback, now, inflight, call>>

(* the clock advances *)
Tick ==
  /\ now < MaxClock
  /\ now' = now + 1
  /\ UNCHANGED <<farmers, escalations, queries, feedback, response, inflight, call>>

Next == ProcessQuery \/ SubmitFeedback \/ ListEscalations \/ GetAnalytics \/ Tick

Spec == Init /\ [][Next]_vars

(* ---------------------------------------------------------------------- *)
(* Specification: the /api/query handler step by step                       *)
(* ---------------------------------------------------------------------- *)
LoopRequests ==
  {req \in Requests : req.crop \in {NoStr, s_rice} /\ req.queryText.type = "string"}

Receive(s) ==
  /\ handlerMayStart
  /\ inflight[s].pc = "idle"
  /\ Len(queries) + inflightCount < MaxQueries
  /\ \E req \in LoopRequests, month \in Months :
       inflight' = [inflight EXCEPT ![s] = suspendedAt(afterReceive(req), FALSE, req, month)]
  /\ UNCHANGED <<farmers, escalations, queries, feedback, now, response, call>>

ResumeVoice(s) ==
  /\ inflight[s].pc = "voice"
  /\ IF voiceAssignmentThrows(inflight[s].req)
       THEN /\ response' = errorResponse("query")
            /\ inflight' = [inflight EXCEPT ![s] = IdleSlot]
       ELSE /\ inflight' = [inflight EXCEPT ![s] =
                 suspendedAt(afterVoice(inflight[s].req), TRUE, inflight[s].req, inflight[s].month)]
            /\ UNCHANGED response
  /\ UNCHANGED <<farmers, escalations, queries, feedback, now, call>>

ResumeNlp(s) ==
  /\ inflight[s].pc = "nlp"
  /\ inflight' = [inflight EXCEPT ![s] =
       suspendedAt(afterNlp(inflight[s].req), TRUE, inflight[s].req, inflight[s].month)]
  /\ UNCHANGED <<farmers, escalations, queries, feedback, now, response, call>>

ResumeImage(s) ==
  /\ inflight[s].pc = "image"
  /\ inflight' = [inflight EXCEPT ![s] =
       suspendedAt(afterImage(inflight[s].req), TRUE, inflight[s].req, inflight[s].month)]
  /\ UNCHANGED <<farmers, escalations, queries, feedback, now, response, call>>

ResumeAdvice(s) ==
  /\ inflight[s].pc = "advice"
  /\ decideAndRecord(inflight[s].req, inflight[s].aiResponse, inflight[s].month)
  /\ inflight' = [inflight EXCEPT ![s] = IdleSlot]
  /\ UNCHANGED <<feedback, now, call>>

LoopNext ==
  \/ \E s \in Slots : Receive(s)
  \/ \E s \in Slots : ResumeVoice(s)
  \/ \E s \in Slots : ResumeNlp(s)
  \/ \E s \in Slots : ResumeImage(s)
  \/ \E s \in Slots : ResumeAdvice(s)
  \/ SubmitFeedback
  \/ Tick

SpecLoop == Init /\ [][LoopNext]_vars

(* ---------------------------------------------------------------------- *)
(* Specification: the functions of the pipeline, each called on its own     *)
(* ---------------------------------------------------------------------- *)
AllMonths == 1..12
Languages == {"en", "ml", "hi"}

ml_vazhayil_pulli_rogam == ml_vazhayil_pulli \o <<" ">> \o ml_rogam

(* the values of processedQuery that NLU is called with: "pests on rice",   *)
(* "Pests ON Rice", "pest or disease", "tomato yield", two Malayalam texts   *)
(* and the number 5                                                          *)
NluTexts ==
  {JsString(s_pests_on_rice),
   JsString(<<"P", "e", "s", "t", "s", " ", "O", "N", " ", "R", "i", "c", "e">>),
   JsString(s_pest \o <<" ", "o", "r", " ">> \o s_disease),
   JsString(s_tomato \o <<" ", "y", "i", "e", "l", "d">>),
   JsString(ml_vazhayil_pulli_rogam), JsString(ml_rogam),
   JsNumber(<<"5">>)}

(* the contexts generateAdvice is called with: those the handler builds for *)
(* a request with no text, "pests on rice" or the number 5, with no crop,   *)
(* rice, tomato, wheat or constructor, and with no image or an image named   *)
(* blight, yellow or x; and the same with an error-marked image result in    *)
(* place of the classifier's                                                 *)
AdviceContexts ==
  LET requests ==
        {[plainRequest EXCEPT !.queryText = t, !.crop = c, !.hasImage = (n # NoStr),
                              !.imageName = n] :
           t \in {JsString(NoStr), JsString(s_pests_on_rice), JsNumber(<<"5">>)},
           c \in {NoStr, s_rice, s_tomato, <<"w", "h", "e", "a", "t">>, s_constructor},
           n \in {NoStr, s_blight, s_yellow, <<"x">>}}
  IN {contextOf(req) : req \in requests}
     \cup {[contextOf(req) EXCEPT !.imageAnalysis = ImageError] : req \in requests}

CallGetCurrentSeason ==
  /\ \E month \in AllMonths :
       call' = [fn |-> "getCurrentSeason", month |-> month, result |-> getCurrentSeason(month)]
  /\ UNCHANGED <<farmers, escalations, queries, feedback, now, response, inflight>>

CallProcessNaturalLanguage ==
  /\ \E text \in NluTexts, language \in Languages :
       call' = [fn |-> "processNaturalLanguage", text |-> text, language |-> language,
                result |-> processNaturalLanguage(text, language)]
  /\ UNCHANGED <<farmers, escalations, queries, feedback, now, response, inflight>>

CallGenerateAdvice ==
  /\ \E context \in AdviceContexts, month \in AllMonths :
       call' = [fn |-> "generateAdvice", context |-> context, month |-> month,
                result |-> generateAdvice(context, farmerHistoryOf(queries, context.farmerId),
                                          farmers, month)]
  /\ UNCHANGED <<farmers, escalations, queries, feedback, now, response, inflight>>

CallsNext == CallGetCurrentSeason \/ CallProcessNaturalLanguage \/ CallGenerateAdvice

SpecCalls == Init /\ [][CallsNext]_vars

(* ---------------------------------------------------------------------- *)
(* Specification: queries in several languages, and the analytics           *)
(* ---------------------------------------------------------------------- *)
LanguageRequests ==
  {[plainRequest EXCEPT !.queryText = JsString(t), !.language = l, !.farmerId = f] :
     t \in {s_pests_on_rice, ml_vazhayil_pulli_rogam}, l \in Languages \cup {"ta"},
     f \in FarmerIds}

ProcessLanguageQuery ==
  /\ handlerMayStart
  /\ Len(queries) < MaxQueries
  /\ \E req \in LanguageRequests, month \in Months : processQuery(req, month)
  /\ UNCHANGED <<feedback, now, inflight, call>>

LanguagesNext == ProcessLanguageQuery \/ GetAnalytics

SpecLanguages == Init /\ [][LanguagesNext]_vars

(* ---------------------------------------------------------------------- *)
(* Specification: the analytics between queries, feedback and listings      *)
(* ---------------------------------------------------------------------- *)
(* the requests that are recorded with a defined confidence *)
AnalyticsRequests ==
  {req \in Requests :
     ~req.hasAudio /\ req.crop # s_constructor /\ req.queryText.type = "string"}

ProcessAnalyticsQuery ==
  /\ handlerMayStart
  /\ Len(queries) < MaxQueries
  /\ \E req \in AnalyticsRequests, month \in Months : processQuery(req, month)
  /\ UNCHANGED <<feedback, now, inflight, call>>

AnalyticsNext == ProcessAnalyticsQuery \/ SubmitFeedback \/ ListEscalations \/ GetAnalytics

SpecAnalytics == Init /\ [][AnalyticsNext]_vars

(* ---------------------------------------------------------------------- *)
(* Specification: queries that name a crop in the text, in the crop field,  *)
(* in both or in neither                                                     *)
(* ---------------------------------------------------------------------- *)
CropRequests ==
  {[plainRequest EXCEPT !.queryText = JsString(t), !.crop = c, !.farmerId = f] :
     t \in {NoStr, s_pests_on_rice},
     c \in {NoStr, s_rice, s_tomato, <<"w", "h", "e", "a", "t">>},
     f \in FarmerIds}

ProcessCropQuery ==
  /\ handlerMayStart
  /\ Len(queries) < MaxQueries
  /\ \E req \in CropRequests, month \in Months : processQuery(req, month)
  /\ UNCHANGED <<feedback, now, inflight, call>>

CropsNext == ProcessCropQuery \/ ListEscalations

SpecCrops == Init /\ [][CropsNext]_vars

(* ====================================================================== *)
(* Properties                                                               *)
(* ====================================================================== *)
lastRecord == queries[Len(queries)]

(* Spec changes response to a /api/query response only in ProcessQuery, and  *)
(* a successful one appends the record of that request as the last record.   *)
queryAnswered == response.op = "query" /\ response.code = 200

(* C1: the status returned by /api/query is "escalated" exactly when the     *)
(* advice result's confidence is below 0.6, which is exactly when the        *)
(* result's shouldEscalate flag is set; otherwise it is "answered".  An      *)
(* error-marked result has no confidence and no flag and is "answered".      *)
C1_StatusAgreesWithConfidence ==
  queryAnswered =>
    /\ response.body.confidence = lastRecord.response.confidence
    /\ response.body.status \in {"escalated", "answered"}
    /\ (response.body.status = "escalated")
         <=> JsLess(lastRecord.response.confidence, EscalateBelow)
    /\ (response.body.status = "escalated") <=> (lastRecord.response.shouldEscalate = "true")

C1_Witness ==
  /\ queryAnswered
  /\ response.body.status = "escalated"
  /\ response.body.confidence = Num(NoSignalConfidence)
  /\ Len(escalations) > 0

(* an escalation record that belongs to a query record *)
corresponds(esc, q) ==
  /\ esc.farmerId = q.farmerId
  /\ esc.originalQuery = q.query.queryText
  /\ esc.aiResponse = q.response

lowConfidenceRecords ==
  {i \in 1..Len(queries) : JsLess(queries[i].response.confidence, EscalateBelow)}

(* C2: a query record has a corresponding escalation record exactly when     *)
(* its confidence is below 0.6, and there are as many escalation records as  *)
(* query records with confidence below 0.6.                                  *)
C2_EscalatedIffLowConfidence ==
  /\ \A i \in 1..Len(queries) :
       (\E j \in 1..Len(escalations) : corresponds(escalations[j], queries[i]))
         <=> i \in lowConfidenceRecords
  /\ Len(escalations) = Cardinality(lowConfidenceRecords)

C2_Witness ==
  /\ Len(queries) = 2
  /\ Len(escalations) = 1
  /\ Cardinality(lowConfidenceRecords) = 1

(* C3: an escalation record has priority "high" exactly when its confidence  *)
(* is below 0.4 and "medium" otherwise; so does the priority computed for    *)
(* any confidence that escalates (0.30 high, 0.45 medium).                   *)
C3_PriorityFromConfidence ==
  /\ \A j \in 1..Len(escalations) :
       /\ escalations[j].priority \in {"high", "medium"}
       /\ (escalations[j].priority = "high")
            <=> JsLess(escalations[j].aiResponse.confidence, HighPriorityBelow)
  /\ \A c \in 0..(EscalateBelow - 1) :
       priorityOf([AdviceError EXCEPT !.error = FALSE, !.confidence = Num(c)])
         = IF c < HighPriorityBelow THEN "high" ELSE "medium"

C3_Witness ==
  \E j \in 1..Len(escalations) :
    /\ escalations[j].priority = "high"
    /\ escalations[j].aiResponse.confidence = Num(NoSignalConfidence)

(* C4: feedback for a query id that matches no record leaves the feedback   *)
(* log and the query log unchanged: the feedback log changes only in a step  *)
(* whose new entry names the id of a record.                                 *)
C4_UnknownFeedbackIsNoOp ==
  [][feedback' # feedback =>
       \E i \in 1..Len(queries) : queries[i].id = feedback'[Len(feedback')].queryId]_vars

elements(array) == {array[i] : i \in 1..Len(array)}

noDuplicates(array) == \A i, j \in 1..Len(array) : i # j => array[i] # array[j]

(* C5: a farmer's crops never lose an element and never hold a crop twice.   *)
C5_CropsGrowWithoutDuplicates ==
  /\ [](\A f \in DOMAIN farmers : noDuplicates(farmers[f].crops))
  /\ [][\A f \in DOMAIN farmers :
          /\ f \in DOMAIN farmers'
          /\ elements(farmers[f].crops) \subseteq elements(farmers'[f].crops)]_vars

C5_Witness ==
  /\ "f1" \in DOMAIN farmers
  /\ farmers["f1"].crops = <<s_rice>>
  /\ Len(queries) = 2
  /\ \A i \in 1..2 : queries[i].farmerId = "f1" /\ queries[i].query.crop = s_rice

(* C6: every /api/query request appends exactly one query record: a step    *)
(* that sends a /api/query response lengthens the query log by one.          *)
C6_EveryRequestRecordedOnce ==
  [][(response'.op = "query" /\ response' # response) =>
       Len(queries') = Len(queries) + 1]_vars

(* C7: requests do not interleave on shared state: between a handler's read  *)
(* of the farmer's history and profile and its own record step no other      *)
(* request's query-log append or profile upsert takes effect, so what a      *)
(* suspended handler has read is still what the query log and the farmers    *)
(* map hold.                                                                 *)
C7_NoInterleaving ==
  \A s \in Slots :
    inflight[s].pc = "advice" =>
      /\ inflight[s].farmerHistory = farmerHistoryOf(queries, inflight[s].req.farmerId)
      /\ inflight[s].farmerProfile = farmerProfileOf(farmers, inflight[s].req.farmerId)

(* C8: no two query records have the same id. *)
C8_QueryIdsUnique ==
  \A i, j \in 1..Len(queries) : i # j => queries[i].id # queries[j].id

(* C9: every query record has exactly one farmer profile with its farmer id. *)
C9_RecordHasOneProfile ==
  \A i \in 1..Len(queries) :
    Cardinality({f \in DOMAIN farmers : farmers[f].id = queries[i].farmerId}) = 1

C9_Witness ==
  /\ Len(queries) = 2
  /\ queries[1].farmerId # queries[2].farmerId
  /\ Cardinality(DOMAIN farmers) = 2

inRange(confidence) == confidence.def /\ 0 <= confidence.val /\ confidence.val <= 100

(* C10: every confidence stored in a query record or an escalation record,  *)
(* or returned to the caller, is defined and lies in [0, 1].                 *)
C10_ConfidenceInRange ==
  /\ \A i \in 1..Len(queries) : inRange(queries[i].response.confidence)
  /\ \A j \in 1..Len(escalations) : inRange(escalations[j].aiResponse.confidence)
  /\ queryAnswered => inRange(response.body.confidence)

(* the NLU result of the request that the last record belongs to *)
nlpOfLastRecord ==
  IF Truthy(lastRecord.query.queryText)
    THEN processNaturalLanguage(lastRecord.query.queryText, response.body.context.language)
    ELSE NoNlp

(* C11: when no intent can be classified for a request (its text is empty,   *)
(* so NLU is not run, or NLU returns an error-marked result), the request's  *)
(* confidence is 0.3 and its status is "escalated", with or without an       *)
(* image.                                                                    *)
C11_NoIntentEscalates ==
  (queryAnswered /\ (~nlpOfLastRecord.present \/ nlpOfLastRecord.error)) =>
    /\ response.body.confidence = Num(NoSignalConfidence)
    /\ response.body.status = "escalated"

(* C12: a failure of a collaborator or of advice generation is never fatal:  *)
(* every /api/query request gets a normal response, and a request whose      *)
(* advice generation failed gets the lowest-confidence response (0.3) with   *)
(* status "escalated", never "answered".                                     *)
C12_FailuresAreSignalAbsent ==
  /\ response.op = "query" => response.code = 200
  /\ (queryAnswered /\ lastRecord.response.error) =>
       /\ response.body.status = "escalated"
       /\ response.body.confidence = Num(NoSignalConfidence)

(* C14: getAnalytics is read-only and idempotent: a step that returns        *)
(* analytics leaves the farmers map, the query log, the escalation list and  *)
(* the feedback log unchanged and returns what the stores give, and a step   *)
(* that records no query (feedback and listings included) does not change    *)
(* what getAnalytics returns.  A step that changes none of the stores that   *)
(* getAnalytics is a function of cannot change it; the others are compared.  *)
C14_AnalyticsReadOnlyIdempotent ==
  [][/\ (response'.op = "analytics" /\ response' # response) =>
          /\ UNCHANGED <<farmers, escalations, queries, feedback>>
          /\ response' = getAnalytics
     /\ (/\ Len(queries') = Len(queries)
         /\ <<farmers, escalations, queries>>' # <<farmers, escalations, queries>>) =>
          getAnalytics' = getAnalytics]_vars

C14_Witness ==
  /\ response.op = "analytics"
  /\ response.body.totalQueries = 2
  /\ \E i \in 1..Len(queries) : queries[i].feedback.present

(* C16: in the initial state, where the query log is empty, getAnalytics     *)
(* returns an escalation rate and an average confidence that are numbers:    *)
(* no result of a division by zero is returned.                              *)
C16_EmptyLogAnalyticsDefined ==
  (response.op = "analytics" /\ response.body.totalQueries = 0) =>
    /\ response.body.escalationRate.kind = "number"
    /\ response.body.avgConfidence.kind = "number"

(* an image result that names a disease *)
namesDisease(imageAnalysis) ==
  imageAnalysis.present /\ imageAnalysis.disease # "Unknown condition"

(* C13: for an image result whose disease is not "Unknown condition" and     *)
(* whose severity is "high", the main advice contains the urgency phrase,    *)
(* whatever the resolved crop, in the Knowledge Base or not.                 *)
C13_HighSeverityIsUrgent ==
  (/\ call.fn = "generateAdvice"
   /\ namesDisease(call.context.imageAnalysis)
   /\ call.context.imageAnalysis.severity = "high") =>
    call.result.mainAdvice.urgent

(* the default season of the spec for month m *)
seasonOfMonth(m) ==
  IF m \in 6..9 THEN "monsoon"
  ELSE IF m \in {10, 11, 12, 1, 2} THEN "post-monsoon"
  ELSE "pre-monsoon"

(* C15: with no season supplied, the default season is the function of the  *)
(* calendar month m: monsoon for 6..9, post-monsoon for 10, 11, 12, 1, 2,    *)
(* pre-monsoon for 3..5.                                                     *)
C15_DefaultSeasonByMonth ==
  /\ call.fn = "getCurrentSeason" => call.result = seasonOfMonth(call.month)
  /\ (call.fn = "generateAdvice" /\ call.context.season = "" /\ ~call.result.error) =>
       call.result.context.season = seasonOfMonth(call.month)

(* C18: advice generation takes the confidence of the first matching branch: *)
(* the image's when an image result names a disease, whatever the intent;    *)
(* otherwise the NLU confidence 0.85 when an intent was classified;          *)
(* otherwise 0.3.                                                            *)
C18_FirstMatchingBranch ==
  call.fn = "generateAdvice" =>
    call.result.confidence =
      IF namesDisease(call.context.imageAnalysis) THEN call.context.imageAnalysis.confidence
      ELSE IF call.context.nlp.present /\ call.context.nlp.intent # "" THEN Num(NlpConfidence)
      ELSE Num(NoSignalConfidence)

(* C19: for language "ml" the entities and the intent are both computed     *)
(* from the translated text, and translatedText holds that text.             *)
C19_TranslationBeforeExtraction ==
  (call.fn = "processNaturalLanguage" /\ call.language = "ml" /\ ~call.result.error) =>
    /\ call.result.translatedText = translateMalayalam(call.text.chars)
    /\ call.result.entities = extractEntities(toLowerCase(call.result.translatedText))
    /\ call.result.intent = classifyIntent(call.result.translatedText)

(* the first intent, in declared order, with a trigger keyword in text *)
firstIntentIn(text) ==
  LET triggered == {i \in 1..Len(intentPatterns) :
                      \E k \in 1..Len(intentPatterns[i].patterns) :
                        includes(text, intentPatterns[i].patterns[k])}
  IN IF triggered = {} THEN "general_query"
     ELSE intentPatterns[CHOOSE i \in triggered : \A j \in triggered : i <= j].intent

(* C20: the intent is the first intent in declared order with a trigger     *)
(* keyword in the lower-cased text, general_query when there is none; so     *)
(* texts that differ only in letter case get the same intent.                *)
C20_IntentFromLowerCasedText ==
  (call.fn = "processNaturalLanguage" /\ call.language = "en" /\ ~call.result.error) =>
    call.result.intent = firstIntentIn(toLowerCase(call.text.chars))

(* the bucket a language is counted in *)
bucketOf(language) == IF language \in {"en", "ml", "hi"} THEN language ELSE "other"

(* C17: the language distribution counts every recorded query in the bucket *)
(* of the language its request was processed in: recording a query raises    *)
(* the count of that language's bucket by one, and the counts of the four    *)
(* buckets sum to the number of recorded queries.                            *)
C17_LanguageCounted ==
  [][(response'.op = "query" /\ response'.code = 200 /\ Len(queries') = Len(queries) + 1) =>
       /\ getLanguageDistribution'[bucketOf(response'.body.context.language)]
            = getLanguageDistribution[bucketOf(response'.body.context.language)] + 1
       /\ getLanguageDistribution'["en"] + getLanguageDistribution'["ml"]
            + getLanguageDistribution'["hi"] + getLanguageDistribution'["other"]
            = Len(queries')]_vars

(* C21: the explicit crop takes precedence over the crop that NLU extracts, *)
(* and one resolved crop serves the whole request: the advice context's     *)
(* crop, the crop calendar (present exactly when the resolved crop is in    *)
(* the Knowledge Base) and the detected crop returned to the caller.         *)
C21_OneResolvedCrop ==
  (queryAnswered /\ ~lastRecord.response.error) =>
    LET resolved == Or(lastRecord.query.crop, nlpOfLastRecord.entities.crop)
    IN /\ lastRecord.response.context.crop = resolved
       /\ lastRecord.response.context.cropCalendar.present <=> resolved \in KnownCrops
       /\ response.body.context.detectedCrop = resolved

(* the farmer history in the advice context of record i is made of the last *)
(* (up to 5) records of its farmer among the records logged before it        *)
historyIsLastFive(log, i) ==
  LET history == log[i].response.context.previousQueries
  IN /\ Len(history) <= HistoryLimit
     /\ \A k \in 1..Len(history) : log[history[k]].farmerId = log[i].farmerId
     /\ history = sliceLast(farmerHistoryOf(SubSeq(log, 1, i - 1), log[i].farmerId),
                            HistoryLimit)

(* C22: the farmer history placed in the advice context has at most 5       *)
(* records, all of the request's farmer: exactly the last (up to 5) records  *)
(* of that farmer, in log order, among those logged before the request is    *)
(* recorded; and the step that builds the context changes neither the query  *)
(* log nor a farmer profile.                                                 *)
C22_HistoryIsLastFive ==
  [][/\ \A i \in 1..Len(queries') :
          ~queries'[i].response.error => historyIsLastFive(queries', i)
     /\ (\E s \in Slots : inflight'[s].pc = "advice" /\ inflight[s].pc # "advice") =>
          UNCHANGED <<queries, farmers>>]_vars

(* C23: the escalation list and the query log only grow by appending: in     *)
(* every step each existing escalation record stays where it is, unchanged,  *)
(* and each existing query record stays where it is and changes in its       *)
(* feedback field at most.                                                   *)
C23_AppendOnly ==
  [][/\ Len(escalations') >= Len(escalations)
     /\ \A j \in 1..Len(escalations) : escalations'[j] = escalations[j]
     /\ Len(queries') >= Len(queries)
     /\ \A i \in 1..Len(queries) :
          [queries'[i] EXCEPT !.feedback = queries[i].feedback] = queries[i]]_vars

C23_Witness ==
  /\ Len(escalations) = 2
  /\ Len(queries) = 2
  /\ queries[1].feedback.present
  /\ response.op = "escalations"

(* the ids of the records of farmer f, in log order *)
recordIdsOf(f) ==
  [k \in 1..Len(farmerHistoryOf(queries, f)) |-> queries[farmerHistoryOf(queries, f)[k]].id]

(* C24: each farmer profile's queryHistory has exactly one entry for each    *)
(* query record with that farmer id, in the same order; so every profile has *)
(* at least one query and every record's farmer has a profile.               *)
C24_HistoryMatchesLog ==
  /\ \A f \in DOMAIN farmers :
       /\ farmers[f].queryHistory = recordIdsOf(f)
       /\ Len(farmers[f].queryHistory) >= 1
  /\ \A i \in 1..Len(queries) : queries[i].farmerId \in DOMAIN farmers

C24_Witness ==
  /\ Len(queries) = 2
  /\ \E f \in DOMAIN farmers :
       farmers[f].queryHistory = <<queries[1].id, queries[2].id>>
====
